---- MODULE Spec2Model ----
(***************************************************************************)
(* Idle-Bot (src/app.py): a discord.py bot engine running on its own       *)
(* thread and event loop, and a threaded Flask control panel whose request *)
(* handlers reach the engine through asyncio.run_coroutine_threadsafe.     *)
(*                                                                         *)
(* A "run" is one call of run_bot_client on its own thread; run r owns     *)
(* engine instance r and event loop r.  Request threads execute the HTTP   *)
(* handlers; a handler is cut into steps at the points where it reads or   *)
(* writes the module globals or blocks on a future.  A coroutine is cut    *)
(* into steps at its awaits.                                               *)
(***************************************************************************)
EXTENDS Integers, Sequences, FiniteSets, TLC

\* ------------------------------------------------------------------ bounds
HttpThreads == 2
MaxRuns == 2
MaxTasks == 2
HandoverTasks == 1

\* --------------------------------------------------------------- constants
None == 0
LogCap == 50
PLACEHOLDER == "YOUR_BOT_TOKEN_HERE"
NoToken == ""

Threads == 1..HttpThreads
Runs == 1..MaxRuns
TaskIds == 1..MaxTasks

\* The request threads: in the specification that runs restarts and bridged
\* requests together, the first thread serves the restart requests and the others
\* the bridged ones.
RestartThreads == {1}
RequestThreads == Threads \ RestartThreads

\* The guilds and channels the platform holds: channel 1 is a text channel and
\* channel 2 a voice channel, both of guild 1; guild 2 has no channel.
Guilds == {1, 2}
Channels == {1, 2}
IsVoice(c) == c = 2
ChanGuild(c) == 1

\* The request fields the handlers are called with; None is a missing field.
RestartTokens == {NoToken, PLACEHOLDER, "T2"}
ChanArgs == Channels \cup {None}
GuildArgs == Guilds \cup {None}
\* How a call of the platform client ends.
Outcomes == {"ok", "NotFound", "Forbidden", "error"}

VARIABLES
    bot_thread,      \* the global: id of the run whose thread it holds, or None
    bot_instance,    \* the global: id of the engine instance it holds, or None
    bot_loop,        \* the global: id of the event loop it holds, or None
    global_logs,     \* the global list of log lines
    runs,            \* run id -> [st, token]: every thread started on run_bot_client
    nruns,           \* number of runs started so far
    closes,          \* close() coroutines scheduled and not yet run: [inst, loop]
    env_file,        \* the .env file: [exists, lines]
    SERVER_CONFIGS,  \* the global: guild key -> [channel_id, allowed_users]
    config_file,     \* server_configs.json as last written by save_configs
    voice,           \* engine-owned: run -> guild -> the channels of its voice sessions
    tasks,           \* task id -> a coroutine handed to run_coroutine_threadsafe
    ntasks,          \* number of coroutines scheduled so far
    thr,             \* request thread -> its handler's local state
    process          \* the Python process: "importing" the module, "serving", "crashed"

vars == <<bot_thread, bot_instance, bot_loop, global_logs, runs, nruns, closes,
          env_file, SERVER_CONFIGS, config_file, voice, tasks, ntasks, thr, process>>

\* The variables no step of the lifecycle (start, stop, restart) writes.
bridge_vars == <<SERVER_CONFIGS, config_file, voice, tasks, ntasks>>
\* The three globals of the session handle.
handle == <<bot_thread, bot_instance, bot_loop>>

\* ------------------------------------------------------------------ helpers

\* log_to_global: append, and drop the oldest line once there are more than 50.
log_to_global(logs, message) ==
    LET appended == Append(logs, message)
    IN  IF Len(appended) > LogCap THEN Tail(appended) ELSE appended

RECURSIVE log_all(_, _)
log_all(logs, messages) ==
    IF messages = <<>> THEN logs
    ELSE log_all(log_to_global(logs, Head(messages)), Tail(messages))

\* discord.py Client.is_ready() of engine r.
is_ready(r) == runs[r].st = "ready"

\* The event loop of run r accepts and runs callbacks while bot.run is executing.
loop_running(r) == runs[r].st \in {"connecting", "ready"}

\* The engine instance of run r is alive: running and not closed.
alive(r) == runs[r].st \in {"connecting", "ready"}

\* `bot_instance and bot_instance.is_ready()` as the handlers test it.
engine_ready == bot_instance # None /\ is_ready(bot_instance)

\* The guard had it tested only `not token`.
token_missing(token) == token = NoToken

\* run_bot_client's guard: `not token or 'YOUR_BOT_TOKEN_HERE' in token`.
token_refused(token) == token = NoToken \/ token = PLACEHOLDER

\* A line of .env as readlines() returns it: its key (what stands before '=',
\* "" for an empty line, "#" for a comment), its value, and whether it ends with
\* a newline (only the last line of a file may not).
TokenLine(token) == [key |-> "DISCORD_TOKEN", val |-> token, nl |-> TRUE]
BlankLine == [key |-> "", val |-> "", nl |-> TRUE]

\* The loop of update_dotenv_token: a line that starts with 'DISCORD_TOKEN=' is
\* replaced by 'DISCORD_TOKEN=<token>\n', any other line is kept.
RECURSIVE rewrite_lines(_, _)
rewrite_lines(lines, new_token) ==
    IF lines = <<>> THEN <<>>
    ELSE <<IF Head(lines).key = "DISCORD_TOKEN" THEN TokenLine(new_token) ELSE Head(lines)>>
         \o rewrite_lines(Tail(lines), new_token)

\* The file had the key been appended as a line of its own and nothing else.
appended_key_only(file, new_token) ==
    LET lines == IF file.exists THEN file.lines ELSE <<>>
        token_updated == \E i \in 1..Len(lines) : lines[i].key = "DISCORD_TOKEN"
    IN  IF token_updated THEN rewrite_lines(lines, new_token)
        ELSE [i \in 1..Len(lines) |-> [lines[i] EXCEPT !.nl = TRUE]] \o <<TokenLine(new_token)>>

\* The lines update_dotenv_token writes, as they are read back: every
\* DISCORD_TOKEN= line replaced; when there is none, '\nDISCORD_TOKEN=<token>\n'
\* appended, whose first newline ends an unterminated last line and is an empty
\* line otherwise.  A missing file is taken as a generated comment line and the
\* placeholder's line.
updated_lines(file, new_token) ==
    LET lines == IF file.exists THEN file.lines
                 ELSE <<[key |-> "#", val |-> ".env file generated by bot panel", nl |-> TRUE],
                        TokenLine(PLACEHOLDER)>>
        token_updated == \E i \in 1..Len(lines) : lines[i].key = "DISCORD_TOKEN"
    IN  IF token_updated THEN rewrite_lines(lines, new_token)
        ELSE IF lines # <<>> /\ ~lines[Len(lines)].nl
             THEN [lines EXCEPT ![Len(lines)].nl = TRUE] \o <<TokenLine(new_token)>>
             ELSE lines \o <<BlankLine, TokenLine(new_token)>>

\* A response: its status and message, and the coroutine whose result it carries
\* (None when it carries none).
Resp(code) == [code |-> code, from |-> None]
Result(code, k) == [code |-> code, from |-> k]

\* The voice sessions of an engine: the channel of each voice client it has
\* registered for the guild (the platform client registers a session when
\* connect() is entered and refuses a second one for the guild).
NoSessions == [g \in Guilds |-> <<>>]

IdleThread == [pc |-> "idle", kind |-> "none", token |-> NoToken,
               chan |-> None, guild |-> None, task |-> None,
               close |-> [inst |-> None, loop |-> None], resp |-> Resp("none")]

NoTask == [kind |-> "none", pc |-> "unused", loop |-> None, sess |-> None,
           chan |-> None, guild |-> None, ginst |-> None, cinst |-> None,
           waited |-> FALSE, ok |-> FALSE,
           author |-> None, administrator |-> FALSE,
           member |-> None, absent |-> FALSE, holds |-> FALSE, detached |-> <<>>,
           error |-> "none", reply |-> "none"]

\* The handler of thread t returns response r; the thread keeps the future it
\* waited on until the response is sent.
answer(t, r) ==
    thr' = [thr EXCEPT ![t] = [IdleThread EXCEPT !.pc = "responded", !.resp = r,
                                                 !.task = thr[t].task]]

\* The places of a coroutine between two awaits where it has begun a
\* read-modify-write of SERVER_CONFIGS and has not yet flushed it.
SectionPcs == {"create", "append", "write", "save"}

\* A loop runs one callback at a time: no coroutine of `loop` other than k is
\* between two awaits.  Coroutines of different loops run on different threads
\* and interleave freely.
loop_free(loop, k) ==
    \A j \in TaskIds : (j # k /\ tasks[j].loop = loop) => tasks[j].pc \notin SectionPcs

\* ------------------------------------------------------- the configuration

\* Python's None where a guild record's 'allowed_users' should be a list (JSON
\* null), and the value standing for a record without that key.  User ids are
\* positive, so neither is a list of user ids.
NullList == <<None>>
AbsentKey == <<None, None>>

\* A guild's record as the mutators create it.
new_record(channel_id) == [channel_id |-> channel_id, allowed_users |-> <<>>]

\* server_configs.json: no file ("missing"), a file of length 0 ("empty"), text that
\* is not JSON ("garbage"), a JSON object of guild records ("object", in val), a
\* JSON value that is not an object ("array"), a JSON object whose values are not
\* objects ("scalars").
file_of(kind, val) == [kind |-> kind, val |-> val]

\* save_configs: the whole mapping is dumped over the file.
save_configs(configs) == file_of("object", configs)

\* load_configs: what it returns for a file, whether it printed the warning, and
\* whether it raised instead of returning.  Only json.JSONDecodeError is caught;
\* the loop over configs.keys() needs a dict of dicts.  A record without
\* 'allowed_users' gets the empty list; any other value of the key is kept.
load_configs(file) ==
    CASE file.kind \in {"missing", "empty"} ->
            [raised |-> FALSE, warned |-> FALSE, configs |-> <<>>]
      [] file.kind = "garbage" ->
            [raised |-> FALSE, warned |-> TRUE, configs |-> <<>>]
      [] file.kind = "object" ->
            [raised |-> FALSE, warned |-> FALSE,
             configs |-> [g \in DOMAIN file.val |->
                            IF file.val[g].allowed_users = AbsentKey
                            THEN [file.val[g] EXCEPT !.allowed_users = <<>>]
                            ELSE file.val[g]]]
      [] OTHER ->
            [raised |-> TRUE, warned |-> FALSE, configs |-> <<>>]

\* --------------------------------------------------------------------- Init

\* __main__: one thread is started on run_bot_client(os.getenv('DISCORD_TOKEN'))
\* before the web server accepts requests.
InitialTokens == {NoToken, PLACEHOLDER, "T1"}

Init ==
    \E initial_token \in InitialTokens :
        /\ bot_thread = 1
        /\ bot_instance = None
        /\ bot_loop = None
        /\ global_logs = <<>>
        /\ runs = [r \in Runs |-> IF r = 1 THEN [st |-> "spawned", token |-> initial_token]
                                  ELSE [st |-> "unused", token |-> NoToken]]
        /\ nruns = 1
        /\ closes = {}
        /\ env_file = IF initial_token = NoToken THEN [exists |-> FALSE, lines |-> <<>>]
                      ELSE [exists |-> TRUE, lines |-> <<TokenLine(initial_token)>>]
        /\ SERVER_CONFIGS = <<>>
        /\ config_file = file_of("missing", <<>>)
        /\ voice = [r \in Runs |-> NoSessions]
        /\ tasks = [k \in TaskIds |-> NoTask]
        /\ ntasks = 0
        /\ thr = [t \in Threads |-> IdleThread]
        /\ process = "serving"

\* The configuration files the process may find when it starts: each kind of
\* file, and objects holding a record of guild 1 with each kind of allowed_users.
ConfigFiles ==
    {file_of(kind, <<>>) : kind \in {"missing", "empty", "garbage", "array", "scalars", "object"}}
    \cup {file_of("object", [g \in {1} |-> [channel_id |-> None, allowed_users |-> users]]) :
            users \in {AbsentKey, NullList, <<>>, <<1>>}}

\* The process as it begins to import the module, with any configuration file and
\* a usable token in the environment.
InitCommands ==
    \E file \in ConfigFiles :
        /\ bot_thread = None
        /\ bot_instance = None
        /\ bot_loop = None
        /\ global_logs = <<>>
        /\ runs = [r \in Runs |-> [st |-> "unused", token |-> NoToken]]
        /\ nruns = 0
        /\ closes = {}
        /\ env_file = [exists |-> TRUE, lines |-> <<TokenLine("T1")>>]
        /\ SERVER_CONFIGS = <<>>
        /\ config_file = file
        /\ voice = [r \in Runs |-> NoSessions]
        /\ tasks = [k \in TaskIds |-> NoTask]
        /\ ntasks = 0
        /\ thr = [t \in Threads |-> IdleThread]
        /\ process = "importing"

\* The import of the module and __main__: SERVER_CONFIGS = load_configs(), whose
\* exception ends the process; then the engine's thread is started with the
\* environment's token.
import_module ==
    /\ process = "importing"
    /\ LET loaded == load_configs(config_file)
       IN  IF loaded.raised
           THEN /\ process' = "crashed"
                /\ UNCHANGED <<SERVER_CONFIGS, bot_thread, runs, nruns>>
           ELSE /\ process' = "serving"
                /\ SERVER_CONFIGS' = loaded.configs
                /\ bot_thread' = 1
                /\ runs' = [runs EXCEPT ![1] = [st |-> "spawned", token |-> "T1"]]
                /\ nruns' = 1
    /\ UNCHANGED <<bot_instance, bot_loop, global_logs, closes, env_file, config_file, voice,
                   tasks, ntasks, thr>>

\* ------------------------------------------------------- the engine's thread

\* run_bot_client up to bot_instance.run(token): refuse a missing or placeholder
\* token, else install a new engine instance in the global and start connecting.
run_bot_client(r) ==
    /\ runs[r].st = "spawned"
    /\ IF token_refused(runs[r].token)
       THEN /\ global_logs' = log_to_global(global_logs, "ERROR: DISCORD_TOKEN not configured")
            /\ runs' = [runs EXCEPT ![r].st = "refused"]
            /\ UNCHANGED bot_instance
       ELSE /\ bot_instance' = r
            /\ runs' = [runs EXCEPT ![r].st = "connecting"]
            /\ UNCHANGED global_logs
    /\ UNCHANGED <<process, bot_thread, bot_loop, nruns, closes, env_file, bridge_vars, thr>>

\* on_ready of engine r, on loop r: two log lines around `bot_loop = bot.loop`.
on_ready(r) ==
    /\ runs[r].st = "connecting"
    /\ runs' = [runs EXCEPT ![r].st = "ready"]
    /\ bot_loop' = r
    /\ global_logs' = log_all(global_logs, <<"Logged in", "Bot is operational">>)
    /\ UNCHANGED <<process, bot_thread, bot_instance, nruns, closes, env_file, bridge_vars, thr>>

\* bot_instance.run(token) raises (a rejected login, a fatal connection error):
\* the except clause of run_bot_client logs it and the thread ends.
run_raises(r) ==
    /\ runs[r].st = "connecting"
    /\ runs' = [runs EXCEPT ![r].st = "closed"]
    /\ global_logs' = log_to_global(global_logs, "FATAL BOT ERROR")
    /\ UNCHANGED <<process, handle, nruns, closes, env_file, bridge_vars, thr>>

\* Loop c.loop runs a scheduled `bot_instance.close()` coroutine of instance c.inst:
\* the instance is closed (its voice sessions with it), its bot.run returns and its
\* thread ends.
close_runs(c) ==
    /\ c \in closes
    /\ loop_running(c.loop)
    /\ loop_free(c.loop, None)
    /\ closes' = closes \ {c}
    /\ runs' = [runs EXCEPT ![c.inst].st = IF alive(c.inst) THEN "closed" ELSE @]
    /\ voice' = [voice EXCEPT ![c.inst] = NoSessions]
    /\ UNCHANGED <<process, handle, global_logs, nruns, env_file, SERVER_CONFIGS, config_file,
                   tasks, ntasks, thr>>

\* ---------------------------------------------------------- restart_bot_api

\* stop_bot_client up to the point where it blocks or returns, as thread t enters
\* it: with both globals set it schedules bot_instance.close() on bot_loop and
\* waits (run_coroutine_threadsafe raises if that loop is closed, which the except
\* clause logs); otherwise it returns True at once.
stop_bot_client(t, new_token) ==
    IF bot_instance # None /\ bot_loop # None
    THEN IF loop_running(bot_loop)
         THEN /\ closes' = closes \cup {[inst |-> bot_instance, loop |-> bot_loop]}
              /\ thr' = [thr EXCEPT ![t] = [IdleThread EXCEPT
                        !.pc = "stop_wait", !.kind = "restart", !.token = new_token,
                        !.close = [inst |-> bot_instance, loop |-> bot_loop]]]
              /\ UNCHANGED global_logs
         ELSE /\ global_logs' = log_to_global(global_logs, "Error stopping bot")
              /\ thr' = [thr EXCEPT ![t] = [IdleThread EXCEPT
                        !.pc = "stop_finally", !.kind = "restart", !.token = new_token]]
              /\ UNCHANGED closes
    ELSE /\ thr' = [thr EXCEPT ![t] = [IdleThread EXCEPT
                        !.pc = "stop_returned", !.kind = "restart", !.token = new_token]]
         /\ UNCHANGED <<closes, global_logs>>

\* restart_bot_api up to the point where stop_bot_client blocks or returns: a
\* missing token is answered 400, otherwise stop_bot_client is entered.
restart_bot_api(t, new_token) ==
    /\ thr[t].pc = "idle"
    /\ IF new_token = NoToken
       THEN /\ answer(t, Resp("400 No new token provided"))
            /\ UNCHANGED <<closes, global_logs>>
       ELSE /\ nruns < MaxRuns
            /\ stop_bot_client(t, new_token)
    /\ UNCHANGED <<process, handle, runs, nruns, env_file, bridge_vars>>

\* stop_bot_client: future.result(5) returns, then bot_thread.join(timeout=5), which
\* raises when a concurrent stop has already cleared bot_thread.
stop_acked(t) ==
    /\ thr[t].pc = "stop_wait"
    /\ thr[t].close \notin closes
    /\ global_logs' = IF bot_thread = None
                      THEN log_to_global(global_logs, "Error stopping bot")
                      ELSE global_logs
    /\ thr' = [thr EXCEPT ![t].pc = "stop_finally"]
    /\ UNCHANGED <<process, handle, runs, nruns, closes, env_file, bridge_vars>>

\* stop_bot_client had it waited with future.result() and no timeout: the wait ends
\* only when close() has run.
stop_waits_forever(t) ==
    /\ thr[t].pc = "stop_wait"
    /\ FALSE
    /\ UNCHANGED vars

\* stop_bot_client: future.result(5) raises because close() has not completed in
\* the 5 seconds (or was cancelled with its loop); the except clause logs it.
stop_timeout(t) ==
    /\ thr[t].pc = "stop_wait"
    /\ thr[t].close \in closes
    /\ global_logs' = log_to_global(global_logs, "Error stopping bot")
    /\ thr' = [thr EXCEPT ![t].pc = "stop_finally"]
    /\ UNCHANGED <<process, handle, runs, nruns, closes, env_file, bridge_vars>>

\* stop_bot_client's finally clause: clear the three globals, log, return True.
stop_finally(t) ==
    /\ thr[t].pc = "stop_finally"
    /\ bot_thread' = None
    /\ bot_instance' = None
    /\ bot_loop' = None
    /\ global_logs' = log_to_global(global_logs, "Bot client stopped")
    /\ thr' = [thr EXCEPT ![t].pc = "stop_returned"]
    /\ UNCHANGED <<process, runs, nruns, closes, env_file, bridge_vars>>

\* restart_bot_api after stop_bot_client has returned:
\* bot_thread = Thread(run_bot_client(new_token)); bot_thread.start().
restart_spawn(t) ==
    /\ thr[t].pc = "stop_returned"
    /\ nruns < MaxRuns
    /\ nruns' = nruns + 1
    /\ runs' = [runs EXCEPT ![nruns + 1] = [st |-> "spawned", token |-> thr[t].token]]
    /\ bot_thread' = nruns + 1
    /\ thr' = [thr EXCEPT ![t].pc = "persist"]
    /\ UNCHANGED <<process, bot_instance, bot_loop, global_logs, closes, env_file, bridge_vars>>

\* restart_bot_api had it called update_dotenv_token right after stop_bot_client,
\* before the new thread exists.
persist_before_spawn(t, written) ==
    /\ thr[t].pc = "stop_returned"
    /\ env_file' = IF written
                   THEN [exists |-> TRUE, lines |-> updated_lines(env_file, thr[t].token)]
                   ELSE env_file
    /\ global_logs' = log_to_global(global_logs, "Bot restart initiated")
    /\ answer(t, Resp("200 Bot restart initiated"))
    /\ UNCHANGED <<process, handle, runs, nruns, closes, bridge_vars>>

\* restart_bot_api: update_dotenv_token(new_token), whose write may fail, then the
\* final log line and the response.
restart_persist(t, written) ==
    /\ thr[t].pc = "persist"
    /\ IF written
       THEN /\ env_file' = [exists |-> TRUE, lines |-> updated_lines(env_file, thr[t].token)]
            /\ global_logs' = log_all(global_logs,
                    <<"Successfully updated DISCORD_TOKEN", "Bot restart initiated">>)
       ELSE /\ env_file' = env_file
            /\ global_logs' = log_all(global_logs,
                    <<"ERROR: Failed to write to .env file", "Bot restart initiated">>)
    /\ answer(t, Resp("200 Bot restart initiated"))
    /\ UNCHANGED <<process, handle, runs, nruns, closes, bridge_vars>>

\* ------------------------------------------- the bridge-backed endpoints

\* Handlers between their readiness check and run_coroutine_threadsafe.
submitting == {t \in Threads : thr[t].pc = "submit"}

\* Fewer than `budget` coroutines have been scheduled or are about to be.
within(budget) == ntasks + Cardinality(submitting) < budget

\* The head of send_message, set_vc_channel_api and force_join_vc_api: the readiness
\* check, then the validation of the request's fields (`valid`), then the
\* definition of the coroutine.  Nothing is scheduled yet.
handler_begin(t, kind, guild, chan, valid) ==
    /\ thr[t].pc = "idle"
    /\ within(MaxTasks)
    /\ IF ~engine_ready THEN answer(t, Resp("400 Bot is offline"))
       ELSE IF ~valid THEN answer(t, Resp("400 field required"))
       ELSE /\ thr' = [thr EXCEPT ![t] = [IdleThread EXCEPT
                    !.pc = "submit", !.kind = kind, !.guild = guild, !.chan = chan]]
    /\ UNCHANGED <<process, handle, global_logs, runs, nruns, closes, env_file, bridge_vars>>

send_message(t, chan, has_body) ==
    handler_begin(t, "send", None, chan, chan # None /\ has_body)

set_vc_channel_api(t, guild, chan) ==
    handler_begin(t, "set", guild, chan, guild # None /\ chan # None)

force_join_vc_api(t, guild, chan) ==
    handler_begin(t, "join", guild, chan, guild # None /\ chan # None)

\* What the handler of `kind` logs in its `except Exception` clause around the
\* bridge call: send_message logs, the other two do not.
log_critical(logs, kind) ==
    IF kind = "send" THEN log_to_global(logs, "Critical error running coroutine") ELSE logs

\* asyncio.run_coroutine_threadsafe(coroutine, bot_loop), bot_loop read now: the
\* coroutine is scheduled on that loop, or the call raises (bot_loop is None, or
\* its loop is closed) and the handler answers 500 from its except clause.
bridge_submit(t) ==
    /\ thr[t].pc = "submit"
    /\ IF bot_loop # None /\ loop_running(bot_loop)
       THEN /\ ntasks' = ntasks + 1
            /\ tasks' = [tasks EXCEPT ![ntasks + 1] =
                    [NoTask EXCEPT !.kind = thr[t].kind, !.pc = "start", !.loop = bot_loop,
                                   !.sess = bot_instance, !.chan = thr[t].chan,
                                   !.guild = thr[t].guild, !.waited = TRUE]]
            /\ thr' = [thr EXCEPT ![t].pc = "wait", ![t].task = ntasks + 1]
            /\ UNCHANGED global_logs
       ELSE /\ global_logs' = log_critical(global_logs, thr[t].kind)
            /\ answer(t, Resp("500 Critical error"))
            /\ UNCHANGED <<tasks, ntasks>>
    /\ UNCHANGED <<process, handle, runs, nruns, closes, env_file, SERVER_CONFIGS, config_file, voice>>

\* The handlers had they kept their future in one module global: a handler reads
\* whichever future holds a result.
shared_future(t) ==
    IF \E k \in TaskIds : tasks[k].pc = "done"
    THEN CHOOSE k \in TaskIds : tasks[k].pc = "done"
    ELSE thr[t].task

\* The future a handler waits on is the one its own run_coroutine_threadsafe call
\* returned.
future_of(t) == thr[t].task

\* A finished coroutine whose future nobody reads any more.
dropped(task) == [NoTask EXCEPT !.pc = "finished"]

\* The response of thread t's handler is sent; the thread is free for a request.
request_done(t) ==
    /\ thr[t].pc = "responded"
    /\ thr' = [thr EXCEPT ![t] = IdleThread]
    /\ UNCHANGED <<process, handle, global_logs, runs, nruns, closes, env_file, bridge_vars>>

\* future.result(timeout=10) returns the coroutine's (success, message).
\* force_join_vc_api logs a success itself.
bridge_result(t) ==
    /\ thr[t].pc = "wait"
    /\ tasks[future_of(t)].pc = "done"
    /\ LET f == tasks[future_of(t)]
       IN  /\ answer(t, Result(IF f.ok THEN "200 success" ELSE "500 failure", future_of(t)))
           /\ global_logs' = IF f.ok /\ thr[t].kind = "join"
                             THEN log_to_global(global_logs, "Owner forced join")
                             ELSE global_logs
           /\ tasks' = [tasks EXCEPT ![future_of(t)] = dropped(f)]
    /\ UNCHANGED <<process, handle, runs, nruns, closes, env_file, SERVER_CONFIGS, config_file,
                   voice, ntasks>>

\* future.result(timeout=10) re-raises the exception the coroutine ended with; the
\* handler's `except Exception` answers 500 "Critical error".
bridge_raised(t) ==
    /\ thr[t].pc = "wait"
    /\ tasks[future_of(t)].pc = "raised"
    /\ answer(t, Result("500 Critical error", future_of(t)))
    /\ global_logs' = log_critical(global_logs, thr[t].kind)
    /\ tasks' = [tasks EXCEPT ![future_of(t)] = dropped(@)]
    /\ UNCHANGED <<process, handle, runs, nruns, closes, env_file, SERVER_CONFIGS, config_file,
                   voice, ntasks>>

\* future.result's timeout had it cancelled the coroutine (as asyncio.wait_for does).
cancelled(task) == [NoTask EXCEPT !.pc = "finished"]

\* The coroutine as future.result's timeout leaves it: nothing is cancelled, only
\* the waiter is gone.
abandoned(task) == [task EXCEPT !.waited = FALSE]

\* future.result(timeout=10) raises after 10 seconds without a result: the handler
\* answers 500 (send_message logs the timeout).
bridge_timeout(t) ==
    /\ thr[t].pc = "wait"
    /\ tasks[future_of(t)].pc \notin {"done", "raised"}
    /\ answer(t, Resp("500 timed out"))
    /\ global_logs' = IF thr[t].kind = "send"
                      THEN log_to_global(global_logs, "Error: Send message operation timed out")
                      ELSE global_logs
    /\ tasks' = [tasks EXCEPT ![future_of(t)] = abandoned(@)]
    /\ UNCHANGED <<process, handle, runs, nruns, closes, env_file, SERVER_CONFIGS, config_file,
                   voice, ntasks>>

\* future.result(timeout=10) raises CancelledError: the coroutine's loop stopped
\* before the coroutine ended, and the loop's shutdown cancelled it.
bridge_cancelled(t) ==
    /\ thr[t].pc = "wait"
    /\ tasks[future_of(t)].pc \notin {"done", "raised"}
    /\ ~loop_running(tasks[future_of(t)].loop)
    /\ answer(t, Resp("500 Critical error"))
    /\ global_logs' = log_critical(global_logs, thr[t].kind)
    /\ tasks' = [tasks EXCEPT ![future_of(t)] = dropped(@)]
    /\ UNCHANGED <<process, handle, runs, nruns, closes, env_file, SERVER_CONFIGS, config_file,
                   voice, ntasks>>

\* ------------------------------------------------- the bridged coroutines

\* A coroutine ends with `return success, message`: the future holds the result
\* while a handler still waits for it.
returned(task, ok) ==
    IF task.waited THEN [task EXCEPT !.pc = "done", !.ok = ok]
    ELSE dropped([task EXCEPT !.pc = "done", !.ok = ok])

\* A coroutine ends with an exception no except clause of it catches: the future
\* holds the exception.
raised(task) ==
    IF task.waited THEN [task EXCEPT !.pc = "raised"]
    ELSE dropped([task EXCEPT !.pc = "raised"])

\* Coroutine k is scheduled on a running loop and stands at `pc`.
at(k, kind, pc) ==
    /\ tasks[k].kind = kind
    /\ tasks[k].pc = pc
    /\ loop_running(tasks[k].loop)
    /\ loop_free(tasks[k].loop, k)

\* fetch_and_send up to `await bot_instance.fetch_channel(...)`: the global
\* bot_instance is read.  Every exception is caught and logged.
fetch_and_send_start(k) ==
    /\ at(k, "send", "start")
    /\ IF bot_instance = None
       THEN /\ tasks' = [tasks EXCEPT ![k] = returned(@, FALSE)]
            /\ global_logs' = log_to_global(global_logs, "Error sending message")
       ELSE /\ tasks' = [tasks EXCEPT ![k].pc = "fetch_channel", ![k].cinst = bot_instance]
            /\ UNCHANGED global_logs
    /\ UNCHANGED <<process, handle, runs, nruns, closes, env_file, SERVER_CONFIGS, config_file,
                   voice, ntasks, thr>>

\* What fetch_and_send logs for an exception.
send_error_line(outcome) ==
    CASE outcome = "NotFound" -> "Error: Channel ID not found"
      [] outcome = "Forbidden" -> "Error: Bot missing permissions for Channel ID"
      [] OTHER -> "Error sending message"

\* fetch_and_send from the end of fetch_channel to `await channel.send(...)`.
fetch_and_send_fetched(k, outcome, can_send) ==
    /\ at(k, "send", "fetch_channel")
    /\ IF outcome # "ok"
       THEN /\ tasks' = [tasks EXCEPT ![k] = returned(@, FALSE)]
            /\ global_logs' = log_to_global(global_logs, send_error_line(outcome))
       ELSE /\ tasks' = [tasks EXCEPT ![k] =
                    IF can_send THEN [@ EXCEPT !.pc = "send"] ELSE returned(@, FALSE)]
            /\ UNCHANGED global_logs
    /\ UNCHANGED <<process, handle, runs, nruns, closes, env_file, SERVER_CONFIGS, config_file,
                   voice, ntasks, thr>>

\* fetch_and_send from the end of channel.send to its return.
fetch_and_send_sent(k, outcome) ==
    /\ at(k, "send", "send")
    /\ tasks' = [tasks EXCEPT ![k] = returned(@, outcome = "ok")]
    /\ global_logs' = log_to_global(global_logs,
            IF outcome = "ok" THEN "Sent message" ELSE send_error_line(outcome))
    /\ UNCHANGED <<process, handle, runs, nruns, closes, env_file, SERVER_CONFIGS, config_file,
                   voice, ntasks, thr>>

\* fetch_and_set up to `await bot_instance.fetch_channel(...)`.  Every exception is
\* caught and turned into (False, message); none is logged.
fetch_and_set_start(k) ==
    /\ at(k, "set", "start")
    /\ tasks' = [tasks EXCEPT ![k] =
            IF bot_instance = None THEN returned(@, FALSE)
            ELSE [@ EXCEPT !.pc = "fetch_channel", !.cinst = bot_instance]]
    /\ UNCHANGED <<process, handle, global_logs, runs, nruns, closes, env_file, SERVER_CONFIGS,
                   config_file, voice, ntasks, thr>>

\* `SERVER_CONFIGS[key] = {...}` replaces the record of `key`: a coroutine that
\* holds the old record's allowed_users list keeps that list, detached from the
\* store.
detach(all_tasks, configs, key) ==
    [j \in TaskIds |->
        IF all_tasks[j].holds /\ all_tasks[j].guild = key /\ key \in DOMAIN configs
        THEN [all_tasks[j] EXCEPT !.holds = FALSE,
                                  !.detached = configs[key].allowed_users]
        ELSE all_tasks[j]]

\* `SERVER_CONFIGS[key] = record`.
assigned(configs, key, record) ==
    [g \in DOMAIN configs \cup {key} |-> IF g = key THEN record ELSE configs[g]]

\* The write of fetch_and_set and of set_vc_channel_id, after their test
\* `key not in SERVER_CONFIGS` found `absent`: a new record for a guild without
\* one, else only its channel_id.
set_channel(configs, key, target_id, absent) ==
    IF absent \/ key \notin DOMAIN configs
    THEN assigned(configs, key, new_record(target_id))
    ELSE [configs EXCEPT ![key].channel_id = target_id]

\* fetch_and_set from the end of fetch_channel to its test
\* `guild_id_str not in SERVER_CONFIGS`; a channel that is not a voice channel, or
\* an exception, ends it with (False, message).
fetch_and_set_fetched(k, outcome) ==
    /\ at(k, "set", "fetch_channel")
    /\ tasks' = [tasks EXCEPT ![k] =
            IF outcome = "ok" /\ IsVoice(tasks[k].chan)
            THEN [@ EXCEPT !.pc = "write", !.absent = tasks[k].guild \notin DOMAIN SERVER_CONFIGS]
            ELSE returned(@, FALSE)]
    /\ UNCHANGED <<process, handle, global_logs, runs, nruns, closes, env_file, SERVER_CONFIGS,
                   config_file, voice, ntasks, thr>>

\* fetch_and_set: the assignment the test chose.
fetch_and_set_write(k) ==
    /\ at(k, "set", "write")
    /\ SERVER_CONFIGS' = set_channel(SERVER_CONFIGS, tasks[k].guild, tasks[k].chan,
                                     tasks[k].absent)
    /\ tasks' = [IF tasks[k].absent THEN detach(tasks, SERVER_CONFIGS, tasks[k].guild)
                 ELSE tasks EXCEPT ![k].pc = "save"]
    /\ UNCHANGED <<process, handle, global_logs, runs, nruns, closes, env_file, config_file,
                   voice, ntasks, thr>>

\* fetch_and_set: save_configs(SERVER_CONFIGS), the log line and the return.
fetch_and_set_save(k) ==
    /\ at(k, "set", "save")
    /\ config_file' = save_configs(SERVER_CONFIGS)
    /\ global_logs' = log_to_global(global_logs, "Owner set VC")
    /\ tasks' = [tasks EXCEPT ![k] = returned(@, TRUE)]
    /\ UNCHANGED <<process, handle, runs, nruns, closes, env_file, SERVER_CONFIGS, voice,
                   ntasks, thr>>

\* fetch_and_join up to `await bot_instance.fetch_guild(...)`: the read of
\* bot_instance is inside a try that catches only NotFound and Forbidden.
fetch_and_join_start(k) ==
    /\ at(k, "join", "start")
    /\ tasks' = [tasks EXCEPT ![k] =
            IF bot_instance = None THEN raised(@)
            ELSE [@ EXCEPT !.pc = "fetch_guild", !.ginst = bot_instance]]
    /\ UNCHANGED <<process, handle, global_logs, runs, nruns, closes, env_file, SERVER_CONFIGS,
                   config_file, voice, ntasks, thr>>

\* fetch_and_join from the end of fetch_guild to `await bot_instance.fetch_channel`:
\* the global bot_instance is read again.
fetch_and_join_guild(k, outcome) ==
    /\ at(k, "join", "fetch_guild")
    /\ tasks' = [tasks EXCEPT ![k] =
            IF outcome \in {"NotFound", "Forbidden"} THEN returned(@, FALSE)
            ELSE IF outcome = "error" \/ bot_instance = None THEN raised(@)
            ELSE [@ EXCEPT !.pc = "fetch_channel", !.cinst = bot_instance]]
    /\ UNCHANGED <<process, handle, global_logs, runs, nruns, closes, env_file, SERVER_CONFIGS,
                   config_file, voice, ntasks, thr>>

\* `guild.voice_client` / `ctx.voice_client` of engine r: whether it has a voice
\* session in the guild.
voice_client(r, guild) == voice[r][guild] # <<>>

\* `await channel.connect()` up to its suspension, on the engine the channel
\* came from: the session is registered at once.
connect_entered(sessions, engine, guild, chan) ==
    [sessions EXCEPT ![engine][guild] = Append(@, chan)]

\* `await voice_client.move_to(channel)` has ended well: the session the
\* coroutine held is in the channel, if it was not disconnected meanwhile.
moved(sessions, engine, guild, chan) ==
    [sessions EXCEPT ![engine][guild] = IF @ = <<>> THEN @ ELSE <<chan>> \o Tail(@)]

\* `await voice_client.disconnect()` has ended, or a connect has failed and the
\* client has cleaned up: the session is gone.
disconnected(sessions, engine, guild) ==
    [sessions EXCEPT ![engine][guild] = IF @ = <<>> THEN @ ELSE Tail(@)]

\* fetch_and_join had it created a session whatever guild.voice_client is.
fetch_and_join_connects_always(k, outcome, view_channel, connect) ==
    /\ at(k, "join", "fetch_channel")
    /\ LET checked == /\ outcome = "ok"
                      /\ IsVoice(tasks[k].chan)
                      /\ ChanGuild(tasks[k].chan) = tasks[k].guild
                      /\ view_channel /\ connect
       IN  /\ tasks' = [tasks EXCEPT ![k] =
                    IF outcome \in {"NotFound", "Forbidden"} THEN returned(@, FALSE)
                    ELSE IF outcome = "error" THEN raised(@)
                    ELSE IF ~checked THEN returned(@, FALSE)
                    ELSE [@ EXCEPT !.pc = "connect"]]
           /\ voice' = IF checked
                       THEN connect_entered(voice, tasks[k].cinst, tasks[k].guild, tasks[k].chan)
                       ELSE voice
    /\ UNCHANGED <<process, handle, global_logs, runs, nruns, closes, env_file, SERVER_CONFIGS,
                   config_file, ntasks, thr>>

\* fetch_and_join from the end of fetch_channel to the await of move_to or connect:
\* the channel's type, guild and permissions are checked, then guild.voice_client
\* decides between moving and connecting.  connect() raises ClientException when
\* the channel's engine already has a session in the guild.
fetch_and_join_channel(k, outcome, view_channel, connect) ==
    /\ at(k, "join", "fetch_channel")
    /\ LET checked == /\ outcome = "ok"
                      /\ IsVoice(tasks[k].chan)
                      /\ ChanGuild(tasks[k].chan) = tasks[k].guild
                      /\ view_channel /\ connect
           connects == checked /\ ~voice_client(tasks[k].ginst, tasks[k].guild)
       IN  /\ tasks' = [tasks EXCEPT ![k] =
                    IF outcome \in {"NotFound", "Forbidden"} THEN returned(@, FALSE)
                    ELSE IF outcome = "error" THEN raised(@)
                    ELSE IF ~checked THEN returned(@, FALSE)
                    ELSE IF ~connects THEN [@ EXCEPT !.pc = "move"]
                    ELSE IF voice_client(tasks[k].cinst, tasks[k].guild) THEN raised(@)
                    ELSE [@ EXCEPT !.pc = "connect"]]
           /\ voice' = IF connects /\ ~voice_client(tasks[k].cinst, tasks[k].guild)
                       THEN connect_entered(voice, tasks[k].cinst, tasks[k].guild, tasks[k].chan)
                       ELSE voice
    /\ UNCHANGED <<process, handle, global_logs, runs, nruns, closes, env_file, SERVER_CONFIGS,
                   config_file, ntasks, thr>>

\* fetch_and_join from the end of voice_client.move_to or channel.connect to its
\* return; an exception of either is not caught.  A connect that fails leaves
\* its session registered or cleans it up (`cleaned`).
fetch_and_join_voice(k, succeeds, cleaned) ==
    /\ tasks[k].kind = "join"
    /\ tasks[k].pc \in {"move", "connect"}
    /\ loop_running(tasks[k].loop)
    /\ loop_free(tasks[k].loop, k)
    /\ LET engine == IF tasks[k].pc = "move" THEN tasks[k].ginst ELSE tasks[k].cinst
       IN  IF succeeds /\ alive(engine)
           THEN /\ voice' = IF tasks[k].pc = "move"
                            THEN moved(voice, engine, tasks[k].guild, tasks[k].chan)
                            ELSE voice
                /\ tasks' = [tasks EXCEPT ![k] = returned(@, TRUE)]
           ELSE /\ tasks' = [tasks EXCEPT ![k] = raised(@)]
                /\ voice' = IF tasks[k].pc = "connect" /\ cleaned
                            THEN disconnected(voice, engine, tasks[k].guild)
                            ELSE voice
    /\ UNCHANGED <<process, handle, global_logs, runs, nruns, closes, env_file, SERVER_CONFIGS,
                   config_file, ntasks, thr>>

\* ------------------------------------------------- the in-engine commands

\* The user ids that invoke commands and that `.adduser` names.
Members == {1, 2}

\* Whether `user` is in a stored allowed_users list.
listed(allowed_users, user) ==
    \E i \in 1..Len(allowed_users) : allowed_users[i] = user

\* The predicate had it accepted a member of any guild's allowed_users list.
allowed_in_any_guild(configs, guild, author, administrator) ==
    IF administrator THEN "True"
    ELSE IF \E g \in DOMAIN configs :
                configs[g].allowed_users # NullList /\ listed(configs[g].allowed_users, author)
         THEN "True" ELSE "False"

\* The predicate of is_admin_or_allowed for an author of guild `guild`:
\* "True", "False", or the TypeError of `ctx.author.id in None`.
is_admin_or_allowed(configs, guild, author, administrator) ==
    IF administrator THEN "True"
    ELSE IF guild \in DOMAIN configs
         THEN LET allowed_users == IF configs[guild].allowed_users = AbsentKey THEN <<>>
                                   ELSE configs[guild].allowed_users
              IN  IF allowed_users = NullList THEN "TypeError"
                  ELSE IF listed(allowed_users, author) THEN "True" ELSE "False"
         ELSE "False"

\* on_command_error: the chat message it sends for an error ("none": nothing is
\* sent).
on_command_error(error) ==
    CASE error = "MissingPermissions" -> "You need the Administrator permission"
      [] error = "NotOwner" -> "Only the Server Owner can use .adduser"
      [] error = "CheckFailure" -> "You must have Administrator or be added by the owner"
      [] OTHER -> "none"

\* on_command_error: what it appends to the log.  CommandNotFound is passed over;
\* an exception that is not a CommandError never reaches on_command_error (the
\* client's on_error prints it).
command_error_logged(logs, error) ==
    IF error \in {"MissingPermissions", "NotOwner", "CheckFailure", "CommandNotFound",
                  "TypeError"}
    THEN logs
    ELSE log_to_global(logs, "Unhandled command error")

\* A command that has ended: with the chat message it sent, or with the error it
\* raised and the chat message on_command_error sent for it.
replied(task, reply) ==
    [NoTask EXCEPT !.pc = "cmd_done", !.kind = task.kind, !.guild = task.guild,
                   !.author = task.author, !.administrator = task.administrator,
                   !.member = task.member, !.reply = reply]
failed(task, error) ==
    [replied(task, on_command_error(error)) EXCEPT !.error = error]

\* A chat message with command `name` reaches engine r in guild `guild`: the
\* command is looked up, its checks run, its arguments are parsed and its body
\* runs up to its test `guild_id_str not in SERVER_CONFIGS`.  `error` is what
\* that raised ("none": nothing), `body` the invocation with its author and
\* arguments, where the body's coroutine stands.
dispatch(r, name, guild, error, body) ==
    /\ process = "serving"
    /\ is_ready(r)
    /\ loop_free(r, None)
    /\ within(MaxTasks)
    /\ ntasks' = ntasks + 1
    /\ LET command == [body EXCEPT !.kind = name, !.loop = r, !.sess = r, !.guild = guild,
                                   !.absent = guild \notin DOMAIN SERVER_CONFIGS]
       IN  tasks' = [tasks EXCEPT ![ntasks + 1] =
                IF error # "none" THEN failed(command, error)
                ELSE IF body.pc = "cmd_done" THEN replied(command, body.reply)
                ELSE command]
    /\ global_logs' = command_error_logged(global_logs, error)
    /\ UNCHANGED <<process, handle, runs, nruns, closes, env_file, SERVER_CONFIGS, config_file,
                   voice, thr>>

\* A name that is no command of the bot: CommandNotFound.
invoke_unknown(r, guild) ==
    dispatch(r, "unknown", guild, "CommandNotFound", NoTask)

\* `.adduser <member>`: commands.is_owner() is checked, then the member argument
\* is converted (None: it is missing or names nobody).
invoke_adduser(r, guild, owner, member) ==
    dispatch(r, "adduser", guild,
             IF ~owner THEN "NotOwner"
             ELSE IF member = None THEN "MissingRequiredArgument" ELSE "none",
             [NoTask EXCEPT !.pc = "create", !.member = member])

\* `.vcchannelid <channel_id>`: is_admin_or_allowed() is checked, then the argument
\* is taken (None: it is missing), then int(channel_id) (`numeric`: it succeeds;
\* the body answers a ValueError itself).
invoke_vcchannelid(r, guild, author, administrator, chan, numeric) ==
    LET allowed == is_admin_or_allowed(SERVER_CONFIGS, guild, author, administrator)
    IN  dispatch(r, "vcchannelid", guild,
                 IF allowed = "False" THEN "CheckFailure"
                 ELSE IF allowed = "TypeError" THEN "TypeError"
                 ELSE IF chan = None THEN "MissingRequiredArgument" ELSE "none",
                 [NoTask EXCEPT !.author = author, !.administrator = administrator,
                                !.chan = chan,
                                !.pc = IF numeric THEN "write" ELSE "cmd_done",
                                !.reply = IF numeric THEN "none"
                                          ELSE "The Channel ID must be a valid number"])

\* add_user_to_config: the record is created if the test found none, and the
\* record's allowed_users list is taken.
add_user_create(k) ==
    /\ at(k, "adduser", "create")
    /\ SERVER_CONFIGS' = IF tasks[k].absent
                         THEN assigned(SERVER_CONFIGS, tasks[k].guild, new_record(None))
                         ELSE SERVER_CONFIGS
    /\ tasks' = [IF tasks[k].absent THEN detach(tasks, SERVER_CONFIGS, tasks[k].guild)
                 ELSE tasks EXCEPT ![k].pc = "append", ![k].holds = TRUE]
    /\ UNCHANGED <<process, handle, global_logs, runs, nruns, closes, env_file, config_file,
                   voice, ntasks, thr>>

\* The allowed_users list coroutine k took: the store's, unless the record was
\* replaced since.
held_list(k) ==
    IF tasks[k].holds THEN SERVER_CONFIGS[tasks[k].guild].allowed_users
    ELSE tasks[k].detached

\* add_user_to_config without its test `member.id in allowed_users`.
add_user_appends_always(k) ==
    /\ at(k, "adduser", "append")
    /\ SERVER_CONFIGS' = [SERVER_CONFIGS EXCEPT
            ![tasks[k].guild].allowed_users = Append(@, tasks[k].member)]
    /\ tasks' = [tasks EXCEPT ![k].pc = "save"]
    /\ UNCHANGED <<process, handle, global_logs, runs, nruns, closes, env_file, config_file,
                   voice, ntasks, thr>>

\* add_user_to_config: a member already in the list is reported and nothing is
\* saved; otherwise the member is appended to the list.  `in None` raises.
add_user_append(k) ==
    /\ at(k, "adduser", "append")
    /\ IF held_list(k) = NullList
       THEN /\ tasks' = [tasks EXCEPT ![k] = failed(@, "CommandInvokeError")]
            /\ global_logs' = command_error_logged(global_logs, "CommandInvokeError")
            /\ UNCHANGED SERVER_CONFIGS
       ELSE IF listed(held_list(k), tasks[k].member)
       THEN /\ tasks' = [tasks EXCEPT ![k] = replied(@, "is already allowed")]
            /\ UNCHANGED <<SERVER_CONFIGS, global_logs>>
       ELSE /\ IF tasks[k].holds
               THEN /\ SERVER_CONFIGS' = [SERVER_CONFIGS EXCEPT
                            ![tasks[k].guild].allowed_users = Append(@, tasks[k].member)]
                    /\ tasks' = [tasks EXCEPT ![k].pc = "save"]
               ELSE /\ tasks' = [tasks EXCEPT ![k].pc = "save",
                                              ![k].detached = Append(@, tasks[k].member)]
                    /\ UNCHANGED SERVER_CONFIGS
            /\ UNCHANGED global_logs
    /\ UNCHANGED <<process, handle, runs, nruns, closes, env_file, config_file, voice, ntasks,
                   thr>>

\* add_user_to_config returning without save_configs().
add_user_returns_unsaved(k) ==
    /\ at(k, "adduser", "save")
    /\ tasks' = [tasks EXCEPT ![k] = replied(@, "can now use the commands")]
    /\ UNCHANGED <<process, handle, global_logs, runs, nruns, closes, env_file, SERVER_CONFIGS,
                   config_file, voice, ntasks, thr>>

\* add_user_to_config: save_configs(SERVER_CONFIGS) and the confirmation.
add_user_save(k) ==
    /\ at(k, "adduser", "save")
    /\ config_file' = save_configs(SERVER_CONFIGS)
    /\ tasks' = [tasks EXCEPT ![k] = replied(@, "can now use the commands")]
    /\ UNCHANGED <<process, handle, global_logs, runs, nruns, closes, env_file, SERVER_CONFIGS,
                   voice, ntasks, thr>>

\* set_vc_channel_id: the assignment its test chose.
set_vc_channel_id_write(k) ==
    /\ at(k, "vcchannelid", "write")
    /\ SERVER_CONFIGS' = set_channel(SERVER_CONFIGS, tasks[k].guild, tasks[k].chan,
                                     tasks[k].absent)
    /\ tasks' = [IF tasks[k].absent THEN detach(tasks, SERVER_CONFIGS, tasks[k].guild)
                 ELSE tasks EXCEPT ![k].pc = "save"]
    /\ UNCHANGED <<process, handle, global_logs, runs, nruns, closes, env_file, config_file,
                   voice, ntasks, thr>>

\* set_vc_channel_id: save_configs(SERVER_CONFIGS), up to the await of fetch_channel.
set_vc_channel_id_save(k) ==
    /\ at(k, "vcchannelid", "save")
    /\ config_file' = save_configs(SERVER_CONFIGS)
    /\ tasks' = [tasks EXCEPT ![k].pc = "fetch_channel"]
    /\ UNCHANGED <<process, handle, global_logs, runs, nruns, closes, env_file, SERVER_CONFIGS,
                   voice, ntasks, thr>>

\* set_vc_channel_id from the end of fetch_channel: both the found channel and
\* NotFound/Forbidden are answered with a success message; any other exception
\* goes to on_command_error.
set_vc_channel_id_fetched(k, outcome) ==
    /\ at(k, "vcchannelid", "fetch_channel")
    /\ tasks' = [tasks EXCEPT ![k] =
            IF outcome = "ok" THEN replied(@, "Success! Default voice channel set")
            ELSE IF outcome \in {"NotFound", "Forbidden"}
                 THEN replied(@, "Success! Saved, but could not find that channel")
            ELSE failed(@, "CommandInvokeError")]
    /\ global_logs' = IF outcome = "error"
                      THEN command_error_logged(global_logs, "CommandInvokeError")
                      ELSE global_logs
    /\ UNCHANGED <<process, handle, runs, nruns, closes, env_file, SERVER_CONFIGS, config_file,
                   voice, ntasks, thr>>

\* `.joinvc` in guild `guild` on engine r, up to the await of move_to or connect:
\* the permission check, the configured channel, bot.get_channel(target_id)
\* (`cached`: it finds the channel), the channel's type, then ctx.voice_client
\* decides between moving and connecting.  The session of connect() belongs to
\* the channel's guild; its ClientException is caught with every other.
invoke_joinvc(r, guild, author, administrator, cached) ==
    /\ process = "serving"
    /\ is_ready(r)
    /\ loop_free(r, None)
    /\ within(MaxTasks)
    /\ ntasks' = ntasks + 1
    /\ LET allowed == is_admin_or_allowed(SERVER_CONFIGS, guild, author, administrator)
           command == [NoTask EXCEPT !.kind = "joinvc", !.loop = r, !.sess = r,
                                     !.guild = guild, !.author = author,
                                     !.administrator = administrator]
           unset == \/ guild \notin DOMAIN SERVER_CONFIGS
                    \/ SERVER_CONFIGS[guild].channel_id = None
           target_id == SERVER_CONFIGS[guild].channel_id
           refused == ~voice_client(r, guild) /\ voice_client(r, ChanGuild(target_id))
       IN  IF allowed # "True"
           THEN /\ tasks' = [tasks EXCEPT ![ntasks + 1] =
                        failed(command, IF allowed = "False" THEN "CheckFailure" ELSE "TypeError")]
                /\ UNCHANGED <<voice, global_logs>>
           ELSE IF unset
           THEN /\ tasks' = [tasks EXCEPT ![ntasks + 1] =
                        replied(command, "A voice channel must be set first")]
                /\ UNCHANGED <<voice, global_logs>>
           ELSE IF ~cached \/ ~IsVoice(target_id)
           THEN /\ tasks' = [tasks EXCEPT ![ntasks + 1] =
                        replied(command, "The configured channel is invalid or not a voice channel")]
                /\ UNCHANGED <<voice, global_logs>>
           ELSE IF voice_client(r, guild)
           THEN /\ tasks' = [tasks EXCEPT ![ntasks + 1] =
                        [command EXCEPT !.pc = "move", !.chan = target_id]]
                /\ UNCHANGED <<voice, global_logs>>
           ELSE IF refused
           THEN /\ tasks' = [tasks EXCEPT ![ntasks + 1] =
                        replied(command, "Error joining VC")]
                /\ global_logs' = log_to_global(global_logs, "Voice join error")
                /\ UNCHANGED voice
           ELSE /\ tasks' = [tasks EXCEPT ![ntasks + 1] =
                        [command EXCEPT !.pc = "connect", !.chan = target_id]]
                /\ voice' = connect_entered(voice, r, ChanGuild(target_id), target_id)
                /\ UNCHANGED global_logs
    /\ UNCHANGED <<process, handle, runs, nruns, closes, env_file, SERVER_CONFIGS, config_file,
                   thr>>

\* join_vc from the end of move_to or connect: an exception of move_to goes to
\* on_command_error, an exception of connect is logged and answered; a connect
\* that fails leaves its session registered or cleans it up (`cleaned`).
join_vc_voice(k, succeeds, cleaned) ==
    /\ tasks[k].kind = "joinvc"
    /\ tasks[k].pc \in {"move", "connect"}
    /\ loop_running(tasks[k].loop)
    /\ loop_free(tasks[k].loop, k)
    /\ IF tasks[k].pc = "move"
       THEN IF succeeds
            THEN /\ voice' = moved(voice, tasks[k].loop, tasks[k].guild, tasks[k].chan)
                 /\ tasks' = [tasks EXCEPT ![k] = replied(@, "Moving to the channel")]
                 /\ UNCHANGED global_logs
            ELSE /\ tasks' = [tasks EXCEPT ![k] = failed(@, "CommandInvokeError")]
                 /\ global_logs' = command_error_logged(global_logs, "CommandInvokeError")
                 /\ UNCHANGED voice
       ELSE IF succeeds
            THEN /\ tasks' = [tasks EXCEPT ![k] = replied(@, "Joined the channel")]
                 /\ UNCHANGED <<voice, global_logs>>
            ELSE /\ tasks' = [tasks EXCEPT ![k] = replied(@, "Error joining VC")]
                 /\ global_logs' = log_to_global(global_logs, "Voice join error")
                 /\ voice' = IF cleaned
                             THEN disconnected(voice, tasks[k].loop, ChanGuild(tasks[k].chan))
                             ELSE voice
    /\ UNCHANGED <<process, handle, runs, nruns, closes, env_file, SERVER_CONFIGS, config_file,
                   ntasks, thr>>

\* `.leavevc` in guild `guild` on engine r, up to the await of disconnect: the
\* permission check, then ctx.voice_client.
invoke_leavevc(r, guild, author, administrator) ==
    LET allowed == is_admin_or_allowed(SERVER_CONFIGS, guild, author, administrator)
    IN  /\ dispatch(r, "leavevc", guild,
                    IF allowed = "False" THEN "CheckFailure"
                    ELSE IF allowed = "TypeError" THEN "TypeError" ELSE "none",
                    [NoTask EXCEPT !.author = author, !.administrator = administrator,
                                   !.pc = IF voice_client(r, guild) THEN "disconnect"
                                          ELSE "cmd_done",
                                   !.reply = IF voice_client(r, guild) THEN "none"
                                             ELSE "I'm not in a voice channel"])

\* leave_vc from the end of voice_client.disconnect(): the session is gone
\* (`cleaned`; disconnect() returns without it for a client that was not yet
\* connected), and the command answers.
leave_vc_disconnected(k, cleaned) ==
    /\ at(k, "leavevc", "disconnect")
    /\ voice' = IF cleaned THEN disconnected(voice, tasks[k].loop, tasks[k].guild) ELSE voice
    /\ tasks' = [tasks EXCEPT ![k] = replied(@, "Left the voice channel")]
    /\ UNCHANGED <<process, handle, global_logs, runs, nruns, closes, env_file, SERVER_CONFIGS,
                   config_file, ntasks, thr>>

\* ------------------------------------------------- the read-only endpoints

\* status(): the readiness check; a ready engine's guilds are then read in the
\* request thread.
status(t) ==
    /\ thr[t].pc = "idle"
    /\ IF engine_ready
       THEN /\ thr' = [thr EXCEPT ![t] = [IdleThread EXCEPT !.pc = "read_guilds", !.kind = "status"]]
       ELSE answer(t, Resp("200 Offline"))
    /\ UNCHANGED <<process, handle, global_logs, runs, nruns, closes, env_file, bridge_vars>>

\* status(): the loop over bot_instance.guilds and each guild.voice_client, then the
\* second readiness check that decides the 'status' field.
status_read(t) ==
    /\ thr[t].pc = "read_guilds"
    /\ answer(t, Resp(IF engine_ready THEN "200 Running" ELSE "200 Offline"))
    /\ UNCHANGED <<process, handle, global_logs, runs, nruns, closes, env_file, bridge_vars>>

\* get_voice_channels(): the readiness check and the guild_id check.
get_voice_channels(t, guild) ==
    /\ thr[t].pc = "idle"
    /\ IF ~engine_ready THEN answer(t, Resp("400 Bot is offline"))
       ELSE IF guild = None THEN answer(t, Resp("400 field required"))
       ELSE /\ thr' = [thr EXCEPT ![t] = [IdleThread EXCEPT
                    !.pc = "read_channels", !.kind = "channels", !.guild = guild]]
    /\ UNCHANGED <<process, handle, global_logs, runs, nruns, closes, env_file, bridge_vars>>

\* get_voice_channels(): bot_instance.get_guild (404 when it finds no guild) and
\* guild.voice_channels are read in the request thread; an exception (bot_instance
\* cleared meanwhile) is logged and answered 500.
get_voice_channels_read(t, found) ==
    /\ thr[t].pc = "read_channels"
    /\ IF bot_instance = None
       THEN /\ global_logs' = log_to_global(global_logs, "Error getting channels")
            /\ answer(t, Resp("500 failure"))
       ELSE /\ answer(t, Resp(IF found THEN "200 success" ELSE "404 Guild not found"))
            /\ UNCHANGED global_logs
    /\ UNCHANGED <<process, handle, runs, nruns, closes, env_file, bridge_vars>>

\* ------------------------------------------------------------- the log sink

\* log_to_global statement by statement, as its callers on different threads (an
\* engine's thread, the request threads) interleave.  The lines are numbered in
\* the order of their append: the last line of the list is the latest one.
MaxAppends == 52

appends == IF global_logs = <<>> THEN 0 ELSE global_logs[Len(global_logs)]

\* global_logs.append(...)
log_append(t) ==
    /\ thr[t].pc = "idle"
    /\ appends < MaxAppends
    /\ global_logs' = Append(global_logs, appends + 1)
    /\ thr' = [thr EXCEPT ![t] = [IdleThread EXCEPT !.pc = "log_test", !.kind = "log"]]
    /\ UNCHANGED <<process, handle, runs, nruns, closes, env_file, bridge_vars>>

\* if len(global_logs) > 50:
log_test(t) ==
    /\ thr[t].pc = "log_test"
    /\ thr' = [thr EXCEPT ![t] = IF Len(global_logs) > LogCap
                                 THEN [@ EXCEPT !.pc = "log_pop"]
                                 ELSE IdleThread]
    /\ UNCHANGED <<process, handle, global_logs, runs, nruns, closes, env_file, bridge_vars>>

\* global_logs.pop(0)
log_pop(t) ==
    /\ thr[t].pc = "log_pop"
    /\ global_logs' = Tail(global_logs)
    /\ thr' = [thr EXCEPT ![t] = IdleThread]
    /\ UNCHANGED <<process, handle, runs, nruns, closes, env_file, bridge_vars>>

NextLog ==
    \/ \E t \in Threads : log_append(t)
    \/ \E t \in Threads : log_test(t)
    \/ \E t \in Threads : log_pop(t)

SpecLog == Init /\ [][NextLog]_vars

\* ------------------------------------------------------ the credential file

\* The .env files update_dotenv_token may find: none, or up to MaxLines lines out
\* of a credential line, another variable's line and an empty line, the last
\* line with or without its newline.
MaxLines == 3
MaxUpdates == 2

EnvLines == {TokenLine("T1"), [key |-> "PORT", val |-> "5000", nl |-> TRUE], BlankLine}

EnvFiles ==
    {[exists |-> FALSE, lines |-> <<>>]}
    \cup {[exists |-> TRUE, lines |-> lines] :
            lines \in UNION {[1..n -> EnvLines] : n \in 0..MaxLines}}
    \cup {[exists |-> TRUE, lines |-> [lines EXCEPT ![Len(lines)].nl = FALSE]] :
            lines \in UNION {[1..n -> EnvLines \ {BlankLine}] : n \in 1..MaxLines}}

InitEnv ==
    \E file \in EnvFiles :
        /\ bot_thread = 1
        /\ bot_instance = None
        /\ bot_loop = None
        /\ global_logs = <<>>
        /\ runs = [r \in Runs |-> IF r = 1 THEN [st |-> "spawned", token |-> "T1"]
                                  ELSE [st |-> "unused", token |-> NoToken]]
        /\ nruns = 1
        /\ closes = {}
        /\ env_file = file
        /\ SERVER_CONFIGS = <<>>
        /\ config_file = file_of("missing", <<>>)
        /\ voice = [r \in Runs |-> NoSessions]
        /\ tasks = [k \in TaskIds |-> NoTask]
        /\ ntasks = 0
        /\ thr = [t \in Threads |-> IdleThread]
        /\ process = "serving"

\* update_dotenv_token(new_token): the file is rewritten and the success logged,
\* or the write fails and the failure is logged.
update_dotenv_token(new_token, written) ==
    /\ Len(global_logs) < MaxUpdates
    /\ IF written
       THEN /\ env_file' = [exists |-> TRUE, lines |-> updated_lines(env_file, new_token)]
            /\ global_logs' = log_to_global(global_logs, "Successfully updated DISCORD_TOKEN")
       ELSE /\ env_file' = env_file
            /\ global_logs' = log_to_global(global_logs, "ERROR: Failed to write to .env file")
    /\ UNCHANGED <<process, handle, runs, nruns, closes, bridge_vars, thr>>

NextEnv ==
    \E new_token \in {"T1", "T2"}, written \in BOOLEAN : update_dotenv_token(new_token, written)

SpecEnv == InitEnv /\ [][NextEnv]_vars

\* ---------------------------------------------------------------- the system

\* Restarts alone: every request thread serves restart requests.
NextRestarts ==
    \/ \E r \in Runs : run_bot_client(r)
    \/ \E r \in Runs : on_ready(r)
    \/ \E r \in Runs : run_raises(r)
    \/ \E c \in closes : close_runs(c)
    \/ \E t \in Threads, new_token \in RestartTokens : restart_bot_api(t, new_token)
    \/ \E t \in Threads : stop_acked(t)
    \/ \E t \in Threads : stop_timeout(t)
    \/ \E t \in Threads : stop_finally(t)
    \/ \E t \in Threads : restart_spawn(t)
    \/ \E t \in Threads, written \in BOOLEAN : restart_persist(t, written)
    \/ \E t \in Threads : request_done(t)

SpecRestarts == Init /\ [][NextRestarts]_vars

\* A thread blocked in future.result(5) is released by the result or by the
\* timeout, and a running thread executes its finally clause: the interpreter
\* schedules every runnable thread.  Nothing obliges an engine's loop to run the
\* close() it was handed.
FairRestarts ==
    /\ Init
    /\ [][NextRestarts]_vars
    /\ \A t \in Threads : WF_vars(stop_acked(t) \/ stop_timeout(t))
    /\ \A t \in Threads : WF_vars(stop_finally(t))

\* The bridged and read-only endpoints of one engine session, no restart: every
\* request thread serves them.  (No loop stops under a coroutine here.)
NextRequests ==
    \/ \E r \in Runs : run_bot_client(r)
    \/ \E r \in Runs : on_ready(r)
    \/ \E r \in Runs : run_raises(r)
    \/ \E t \in Threads, chan \in ChanArgs, has_body \in BOOLEAN : send_message(t, chan, has_body)
    \/ \E t \in Threads, guild \in GuildArgs, chan \in ChanArgs : set_vc_channel_api(t, guild, chan)
    \/ \E t \in Threads, guild \in GuildArgs, chan \in ChanArgs : force_join_vc_api(t, guild, chan)
    \/ \E t \in Threads : bridge_submit(t)
    \/ \E t \in Threads : bridge_result(t)
    \/ \E t \in Threads : bridge_raised(t)
    \/ \E t \in Threads : bridge_timeout(t)
    \/ \E k \in TaskIds : fetch_and_send_start(k)
    \/ \E k \in TaskIds, outcome \in Outcomes, can_send \in BOOLEAN :
            fetch_and_send_fetched(k, outcome, can_send)
    \/ \E k \in TaskIds, outcome \in Outcomes : fetch_and_send_sent(k, outcome)
    \/ \E k \in TaskIds : fetch_and_set_start(k)
    \/ \E k \in TaskIds, outcome \in Outcomes : fetch_and_set_fetched(k, outcome)
    \/ \E k \in TaskIds : fetch_and_set_write(k)
    \/ \E k \in TaskIds : fetch_and_set_save(k)
    \/ \E k \in TaskIds : fetch_and_join_start(k)
    \/ \E k \in TaskIds, outcome \in Outcomes : fetch_and_join_guild(k, outcome)
    \/ \E k \in TaskIds, outcome \in Outcomes, view_channel \in BOOLEAN, connect \in BOOLEAN :
            fetch_and_join_channel(k, outcome, view_channel, connect)
    \/ \E k \in TaskIds, succeeds \in BOOLEAN, cleaned \in BOOLEAN :
            fetch_and_join_voice(k, succeeds, cleaned)
    \/ \E t \in Threads : status(t)
    \/ \E t \in Threads : status_read(t)
    \/ \E t \in Threads, guild \in GuildArgs : get_voice_channels(t, guild)
    \/ \E t \in Threads, found \in BOOLEAN : get_voice_channels_read(t, found)
    \/ \E t \in Threads : request_done(t)

SpecRequests == Init /\ [][NextRequests]_vars

\* The in-engine commands and the set_vc_channel request of one engine session,
\* from the import of the module on.
NextCommands ==
    \/ import_module
    \/ \E r \in Runs : run_bot_client(r)
    \/ \E r \in Runs : on_ready(r)
    \/ \E r \in Runs, guild \in Guilds : invoke_unknown(r, guild)
    \/ \E r \in Runs, guild \in Guilds, owner \in BOOLEAN, member \in Members \cup {None} :
            invoke_adduser(r, guild, owner, member)
    \/ \E r \in Runs, guild \in Guilds, author \in Members, administrator \in BOOLEAN,
          chan \in ChanArgs, numeric \in BOOLEAN :
            invoke_vcchannelid(r, guild, author, administrator, chan, numeric)
    \/ \E k \in TaskIds : add_user_create(k)
    \/ \E k \in TaskIds : add_user_append(k)
    \/ \E k \in TaskIds : add_user_save(k)
    \/ \E k \in TaskIds : set_vc_channel_id_write(k)
    \/ \E k \in TaskIds : set_vc_channel_id_save(k)
    \/ \E k \in TaskIds, outcome \in Outcomes : set_vc_channel_id_fetched(k, outcome)
    \/ \E t \in RequestThreads, guild \in GuildArgs, chan \in ChanArgs :
            process = "serving" /\ set_vc_channel_api(t, guild, chan)
    \/ \E t \in RequestThreads : bridge_submit(t)
    \/ \E t \in RequestThreads : bridge_result(t)
    \/ \E t \in RequestThreads : bridge_timeout(t)
    \/ \E k \in TaskIds : fetch_and_set_start(k)
    \/ \E k \in TaskIds, outcome \in Outcomes : fetch_and_set_fetched(k, outcome)
    \/ \E k \in TaskIds : fetch_and_set_write(k)
    \/ \E k \in TaskIds : fetch_and_set_save(k)
    \/ \E t \in RequestThreads : request_done(t)

SpecCommands == InitCommands /\ [][NextCommands]_vars

\* The writers of the configuration while sessions are replaced: one thread
\* serves the restart requests, the others the set_vc_channel requests, and the
\* engines receive adduser commands.
NextWrites ==
    \/ \E r \in Runs : run_bot_client(r)
    \/ \E r \in Runs : on_ready(r)
    \/ \E c \in closes : close_runs(c)
    \/ \E t \in RestartThreads : restart_bot_api(t, "T2")
    \/ \E t \in RestartThreads : stop_acked(t)
    \/ \E t \in RestartThreads : stop_timeout(t)
    \/ \E t \in RestartThreads : stop_finally(t)
    \/ \E t \in RestartThreads : restart_spawn(t)
    \/ \E t \in RestartThreads : restart_persist(t, TRUE)
    \/ \E r \in Runs, guild \in Guilds, member \in Members :
            within(HandoverTasks) /\ invoke_adduser(r, guild, TRUE, member)
    \/ \E k \in TaskIds : add_user_create(k)
    \/ \E k \in TaskIds : add_user_append(k)
    \/ \E k \in TaskIds : add_user_save(k)
    \/ \E t \in RequestThreads, guild \in Guilds, chan \in Channels :
            set_vc_channel_api(t, guild, chan)
    \/ \E t \in RequestThreads : bridge_submit(t)
    \/ \E t \in RequestThreads : bridge_result(t)
    \/ \E t \in RequestThreads : bridge_timeout(t)
    \/ \E t \in RequestThreads : bridge_cancelled(t)
    \/ \E k \in TaskIds : fetch_and_set_start(k)
    \/ \E k \in TaskIds, outcome \in Outcomes : fetch_and_set_fetched(k, outcome)
    \/ \E k \in TaskIds : fetch_and_set_write(k)
    \/ \E k \in TaskIds : fetch_and_set_save(k)
    \/ \E t \in Threads : request_done(t)

SpecWrites == Init /\ [][NextWrites]_vars

\* The stores the voice commands may find: none, guild 1 with the text channel,
\* guild 1 with the voice channel, and both guilds with guild 1's voice channel;
\* member 1 is allowed in each record.
VoiceConfigs ==
    {<<>>}
    \cup {[g \in {1} |-> [channel_id |-> c, allowed_users |-> <<1>>]] : c \in Channels}
    \cup {[g \in Guilds |-> [channel_id |-> 2, allowed_users |-> <<1>>]]}

\* One engine is ready and has served commands: a store, and a voice session in
\* guild 1 or none.
InitVoice ==
    \E configs \in VoiceConfigs, sessions \in {<<>>, <<2>>} :
        /\ bot_thread = 1
        /\ bot_instance = 1
        /\ bot_loop = 1
        /\ global_logs = <<"Logged in", "Bot is operational">>
        /\ runs = [r \in Runs |-> IF r = 1 THEN [st |-> "ready", token |-> "T1"]
                                  ELSE [st |-> "unused", token |-> NoToken]]
        /\ nruns = 1
        /\ closes = {}
        /\ env_file = [exists |-> TRUE, lines |-> <<TokenLine("T1")>>]
        /\ SERVER_CONFIGS = configs
        /\ config_file = IF configs = <<>> THEN file_of("missing", <<>>) ELSE save_configs(configs)
        /\ voice = [r \in Runs |-> IF r = 1 THEN [NoSessions EXCEPT ![1] = sessions]
                                   ELSE NoSessions]
        /\ tasks = [k \in TaskIds |-> NoTask]
        /\ ntasks = 0
        /\ thr = [t \in Threads |-> IdleThread]
        /\ process = "serving"

\* The voice operations of one engine: the joinvc and leavevc commands and the
\* force_join_vc requests of every request thread.
NextVoice ==
    \/ \E r \in Runs, guild \in Guilds, author \in Members, administrator \in BOOLEAN,
          cached \in BOOLEAN :
            invoke_joinvc(r, guild, author, administrator, cached)
    \/ \E k \in TaskIds, succeeds \in BOOLEAN, cleaned \in BOOLEAN :
            join_vc_voice(k, succeeds, cleaned)
    \/ \E r \in Runs, guild \in Guilds, author \in Members, administrator \in BOOLEAN :
            invoke_leavevc(r, guild, author, administrator)
    \/ \E k \in TaskIds, cleaned \in BOOLEAN : leave_vc_disconnected(k, cleaned)
    \/ \E t \in Threads, guild \in GuildArgs, chan \in ChanArgs : force_join_vc_api(t, guild, chan)
    \/ \E t \in Threads : bridge_submit(t)
    \/ \E t \in Threads : bridge_result(t)
    \/ \E t \in Threads : bridge_raised(t)
    \/ \E t \in Threads : bridge_timeout(t)
    \/ \E k \in TaskIds : fetch_and_join_start(k)
    \/ \E k \in TaskIds, outcome \in Outcomes : fetch_and_join_guild(k, outcome)
    \/ \E k \in TaskIds, outcome \in Outcomes, view_channel \in BOOLEAN, connect \in BOOLEAN :
            fetch_and_join_channel(k, outcome, view_channel, connect)
    \/ \E k \in TaskIds, succeeds \in BOOLEAN, cleaned \in BOOLEAN :
            fetch_and_join_voice(k, succeeds, cleaned)
    \/ \E t \in Threads : request_done(t)

SpecVoice == InitVoice /\ [][NextVoice]_vars

\* Restarts and bridged requests together: one thread serves the restart requests
\* while the others serve the bridged endpoints, HandoverTasks coroutines in all.
Next ==
    \/ \E r \in Runs : run_bot_client(r)
    \/ \E r \in Runs : on_ready(r)
    \/ \E r \in Runs : run_raises(r)
    \/ \E c \in closes : close_runs(c)
    \/ \E t \in RestartThreads, new_token \in RestartTokens : restart_bot_api(t, new_token)
    \/ \E t \in RestartThreads : stop_acked(t)
    \/ \E t \in RestartThreads : stop_timeout(t)
    \/ \E t \in RestartThreads : stop_finally(t)
    \/ \E t \in RestartThreads : restart_spawn(t)
    \/ \E t \in RestartThreads, written \in BOOLEAN : restart_persist(t, written)
    \/ \E t \in RequestThreads, chan \in ChanArgs, has_body \in BOOLEAN :
            within(HandoverTasks) /\ send_message(t, chan, has_body)
    \/ \E t \in RequestThreads, guild \in GuildArgs, chan \in ChanArgs :
            within(HandoverTasks) /\ set_vc_channel_api(t, guild, chan)
    \/ \E t \in RequestThreads, guild \in GuildArgs, chan \in ChanArgs :
            within(HandoverTasks) /\ force_join_vc_api(t, guild, chan)
    \/ \E t \in RequestThreads : bridge_submit(t)
    \/ \E t \in RequestThreads : bridge_result(t)
    \/ \E t \in RequestThreads : bridge_raised(t)
    \/ \E t \in RequestThreads : bridge_timeout(t)
    \/ \E t \in RequestThreads : bridge_cancelled(t)
    \/ \E k \in TaskIds : fetch_and_send_start(k)
    \/ \E k \in TaskIds, outcome \in Outcomes, can_send \in BOOLEAN :
            fetch_and_send_fetched(k, outcome, can_send)
    \/ \E k \in TaskIds, outcome \in Outcomes : fetch_and_send_sent(k, outcome)
    \/ \E k \in TaskIds : fetch_and_set_start(k)
    \/ \E k \in TaskIds, outcome \in Outcomes : fetch_and_set_fetched(k, outcome)
    \/ \E k \in TaskIds : fetch_and_set_write(k)
    \/ \E k \in TaskIds : fetch_and_set_save(k)
    \/ \E k \in TaskIds : fetch_and_join_start(k)
    \/ \E k \in TaskIds, outcome \in Outcomes : fetch_and_join_guild(k, outcome)
    \/ \E k \in TaskIds, outcome \in Outcomes, view_channel \in BOOLEAN, connect \in BOOLEAN :
            fetch_and_join_channel(k, outcome, view_channel, connect)
    \/ \E k \in TaskIds, succeeds \in BOOLEAN, cleaned \in BOOLEAN :
            fetch_and_join_voice(k, succeeds, cleaned)
    \/ \E t \in Threads : request_done(t)

Spec == Init /\ [][Next]_vars

\* ------------------------------------------------------------------- claims

\* The coroutine of a restart request has returned to its caller and a new run
\* has been started.
restart_completed ==
    /\ nruns > 1
    /\ \A t \in Threads : thr[t].kind # "restart"

\* C1: once restart(T) has completed, no remaining step of a bridged operation that
\* was submitted against the old session S1 uses the new session S2 as its engine
\* instance: every engine instance a coroutine picks up from then on is the one
\* that was installed when it was submitted.
C1_NeverResolvesAgainstNewSession ==
    [][restart_completed =>
        \A k \in TaskIds :
            /\ tasks'[k].ginst \in {tasks[k].ginst, None, tasks[k].sess}
            /\ tasks'[k].cinst \in {tasks[k].cinst, None, tasks[k].sess}]_vars

\* C2: in every reachable state at most one engine instance is alive (running and
\* not closed).
C2_AtMostOneAlive == Cardinality({r \in Runs : alive(r)}) <= 1

\* C3: a bridged request whose handler is about to submit while the engine is not
\* Ready (it left Ready after the handler's check) is answered "Bot is offline",
\* schedules no coroutine and changes neither the log, the configuration nor the
\* voice sessions.
C3_NotReadyFailsWithoutEffect ==
    [][\A t \in Threads :
        (thr[t].pc = "submit" /\ ~engine_ready /\ thr'[t] # thr[t]) =>
            /\ thr'[t].resp.code = "400 Bot is offline"
            /\ UNCHANGED <<tasks, ntasks, global_logs, SERVER_CONFIGS, config_file, voice>>]_vars

\* C4: the result a waiting request thread receives is the result of the coroutine
\* that carries that thread's own request (its kind, guild and channel) and that
\* the thread itself submitted, with that coroutine's success flag.
C4_OwnResult ==
    [][\A t \in Threads :
        (thr[t].pc = "wait" /\ thr'[t].pc = "responded" /\ thr'[t].resp.from # None) =>
            LET f == tasks[thr'[t].resp.from]
            IN  /\ thr'[t].resp.from = thr[t].task
                /\ f.kind = thr[t].kind
                /\ f.guild = thr[t].guild
                /\ f.chan = thr[t].chan
                /\ f.pc \in {"done", "raised"}
                /\ thr'[t].resp.code = IF f.pc = "raised" THEN "500 Critical error"
                                       ELSE IF f.ok THEN "200 success" ELSE "500 failure"]_vars

\* Two request threads hold, at once, the results of two different coroutines.
C4_Witness ==
    \E t, u \in Threads :
        /\ t # u
        /\ thr[t].pc = "responded" /\ thr[u].pc = "responded"
        /\ thr[t].resp.from # None /\ thr[u].resp.from # None
        /\ thr[t].resp.from # thr[u].resp.from
        /\ thr[t].resp.code # thr[u].resp.code

\* C5: when the bounded wait of a handler elapses, the handler answers with the
\* timeout failure and its coroutine is left as it was, scheduled on the same
\* loop at the same await, so that it can still run to completion.
C5_TimeoutDoesNotCancel ==
    [][\A t \in Threads :
        (thr[t].pc = "wait" /\ thr'[t].pc = "responded"
                            /\ thr'[t].resp.code = "500 timed out") =>
            LET k == thr[t].task
            IN  /\ tasks[k].pc \notin {"done", "raised", "finished", "unused"}
                /\ tasks'[k].pc = tasks[k].pc
                /\ tasks'[k].loop = tasks[k].loop
                /\ tasks'[k].kind = tasks[k].kind
                /\ tasks'[k].chan = tasks[k].chan
                /\ tasks'[k].guild = tasks[k].guild]_vars

\* A handler holds the timeout response of the only coroutine scheduled so far, a
\* set_vc_channel, and that coroutine has since written the configuration.
C5_Witness ==
    \E t \in Threads :
        /\ thr[t].pc = "responded"
        /\ thr[t].resp.code = "500 timed out"
        /\ ntasks = 1
        /\ thr[t].task = 1
        /\ tasks[1].pc = "finished"
        /\ SERVER_CONFIGS # <<>>
        /\ config_file = save_configs(SERVER_CONFIGS)

\* C6: whenever stop_bot_client has returned, bot_thread, bot_instance and bot_loop
\* are all cleared.
C6_StopReleasesHandle ==
    \A t \in Threads :
        thr[t].pc = "stop_returned" =>
            bot_thread = None /\ bot_instance = None /\ bot_loop = None

\* C7: every call of stop_bot_client that waits for the engine's close, or has
\* caught an error, eventually returns to its caller.
C7_StopReturns ==
    \A t \in Threads :
        (thr[t].pc \in {"stop_wait", "stop_finally"}) ~> (thr[t].pc = "stop_returned")

\* stop_bot_client has returned while the close() it scheduled has still not run.
C7_Witness ==
    \E t \in Threads :
        /\ thr[t].pc = "stop_returned"
        /\ thr[t].close \in closes
        /\ alive(thr[t].close.inst)

\* The DISCORD_TOKEN values the credential file holds.
persisted_tokens ==
    {env_file.lines[i].val : i \in {j \in 1..Len(env_file.lines) :
                                        env_file.lines[j].key = "DISCORD_TOKEN"}}

\* The credential file as it is before any restart request has written it.
initial_env_file ==
    IF runs[1].token = NoToken THEN [exists |-> FALSE, lines |-> <<>>]
    ELSE [exists |-> TRUE, lines |-> <<TokenLine(runs[1].token)>>]

C9_NoDirectEngineAccess ==
    \A t \in Threads : thr[t].pc \notin {"read_guilds", "read_channels"}

\* C10: no bridged operation ends with an exception in the future its handler
\* waits on; each ends with a (success, message) result.
C10_NeverRaisesAcrossBridge ==
    \A k \in TaskIds : tasks[k].pc # "raised"

\* ---------------------------------------------------------------- the store

\* No mutator of the configuration stands between its test of the store and
\* its save_configs().
no_mutator_running ==
    \A k \in TaskIds : tasks[k].pc \notin SectionPcs

\* C11: whenever no mutator (adduser, vcchannelid, set_vc_channel) is between its
\* test of the store and its return, the configuration file is the dump of the
\* whole in-memory configuration, unless no mutator has changed the memory since
\* the import, when the memory is still what load_configs() made of the file.
C11_FlushedBeforeReturn ==
    (process = "serving" /\ no_mutator_running)
        => \/ config_file = save_configs(SERVER_CONFIGS)
           \/ /\ ~load_configs(config_file).raised
              /\ SERVER_CONFIGS = load_configs(config_file).configs
              /\ \A k \in TaskIds : tasks[k].reply \notin
                    {"can now use the commands", "Success! Default voice channel set",
                     "Success! Saved, but could not find that channel"}

\* An adduser and a vcchannelid have both returned having changed the store, and
\* the file holds the member and the channel.
C11_Witness ==
    /\ no_mutator_running
    /\ \E k \in TaskIds : tasks[k].kind = "adduser" /\ tasks[k].reply = "can now use the commands"
    /\ \E k \in TaskIds : tasks[k].kind = "vcchannelid" /\ tasks[k].pc = "cmd_done"
                            /\ tasks[k].reply = "Success! Default voice channel set"
    /\ config_file.kind = "object"
    /\ \E g \in DOMAIN config_file.val :
            /\ config_file.val[g].channel_id # None
            /\ config_file.val[g].allowed_users \notin {<<>>, NullList, AbsentKey}

\* C12: no update of the store is lost: once no mutator is between its test of
\* the store and its save, every member an adduser command reported as added is
\* in the allowed_users list of its guild, in memory and in the file.
C12_NoLostUpdate ==
    no_mutator_running =>
        \A k \in TaskIds :
            (tasks[k].kind = "adduser" /\ tasks[k].reply = "can now use the commands")
                => /\ tasks[k].guild \in DOMAIN SERVER_CONFIGS
                   /\ listed(SERVER_CONFIGS[tasks[k].guild].allowed_users, tasks[k].member)
                   /\ config_file = save_configs(SERVER_CONFIGS)

\* The gated command of coroutine k passed its permission check.
check_passed(task) ==
    task.kind = "vcchannelid" /\ task.error \notin {"CheckFailure", "TypeError"}

\* C13: a gated command passes its permission check exactly when its author has
\* the administrator permission or is in the allowed_users list of the guild the
\* command is invoked in (so never by another guild's list, and never in a guild
\* without a record), and the check leaves the store, the file and the engine
\* handle as they were.
C13_PermissionCheck ==
    [][\A k \in TaskIds :
        (tasks[k].kind = "none" /\ tasks'[k].kind = "vcchannelid")
            => /\ check_passed(tasks'[k]) <=>
                    \/ tasks'[k].administrator
                    \/ /\ tasks'[k].guild \in DOMAIN SERVER_CONFIGS
                       /\ SERVER_CONFIGS[tasks'[k].guild].allowed_users # NullList
                       /\ tasks'[k].author \in
                            {SERVER_CONFIGS[tasks'[k].guild].allowed_users[i] :
                                i \in 1..Len(SERVER_CONFIGS[tasks'[k].guild].allowed_users)}
               /\ ~check_passed(tasks'[k]) => tasks'[k].pc = "cmd_done"
               /\ UNCHANGED <<SERVER_CONFIGS, config_file, handle, voice>>]_vars

\* A member listed in one guild and without the administrator permission passed
\* the check there and was refused in another guild.
C13_Witness ==
    \E k, j \in TaskIds :
        /\ check_passed(tasks[k]) /\ ~tasks[k].administrator
        /\ tasks[j].kind = "vcchannelid" /\ tasks[j].error = "CheckFailure"
        /\ tasks[j].author = tasks[k].author
        /\ tasks[j].guild # tasks[k].guild
        /\ listed(SERVER_CONFIGS[tasks[k].guild].allowed_users, tasks[k].author)

\* No allowed_users list of the store holds a member twice.
no_duplicates(configs) ==
    \A g \in DOMAIN configs :
        configs[g].allowed_users = NullList
        \/ \A i, j \in 1..Len(configs[g].allowed_users) :
                configs[g].allowed_users[i] = configs[g].allowed_users[j] => i = j

\* C14: an adduser command whose member is already in the guild's allowed_users
\* list answers "is already allowed" and leaves the store and the file as they
\* were, and a step that answers so never changed them; no allowed_users list
\* comes to hold a member twice.
C14_AddUserIdempotent ==
    [][/\ \A k \in TaskIds :
            /\ (/\ tasks[k].kind = "adduser" /\ tasks[k].pc = "append"
                /\ tasks'[k].pc # "append"
                /\ SERVER_CONFIGS[tasks[k].guild].allowed_users # NullList
                /\ listed(SERVER_CONFIGS[tasks[k].guild].allowed_users, tasks[k].member))
                    => /\ tasks'[k].reply = "is already allowed"
                       /\ UNCHANGED <<SERVER_CONFIGS, config_file>>
            /\ (tasks[k].reply # "is already allowed" /\ tasks'[k].reply = "is already allowed")
                    => UNCHANGED <<SERVER_CONFIGS, config_file>>
       /\ no_duplicates(SERVER_CONFIGS) => no_duplicates(SERVER_CONFIGS')]_vars

\* The same member was added to the same guild twice: the first command added it,
\* the second answered "is already allowed", and the list holds it once.
C14_Witness ==
    \E k, j \in TaskIds :
        /\ tasks[k].kind = "adduser" /\ tasks[k].reply = "can now use the commands"
        /\ tasks[j].kind = "adduser" /\ tasks[j].reply = "is already allowed"
        /\ tasks[j].guild = tasks[k].guild /\ tasks[j].member = tasks[k].member
        /\ SERVER_CONFIGS[tasks[k].guild].allowed_users = <<tasks[k].member>>
        /\ config_file = save_configs(SERVER_CONFIGS)

\* ----------------------------------------------------------------- the log

\* No caller of log_to_global is between its append and its return.
no_log_call_running ==
    \A t \in Threads : thr[t].kind # "log"

\* C15: the log never holds more than 50 lines, its lines are in the order of
\* their append, and the oldest line is evicted first and only to keep the cap:
\* once every call has returned, the log holds the last 50 lines appended (all
\* of them while there were no more than 50).
C15_LogCapFifo ==
    /\ Len(global_logs) <= LogCap
    /\ \A i \in 1..(Len(global_logs) - 1) : global_logs[i + 1] = global_logs[i] + 1
    /\ no_log_call_running =>
            Len(global_logs) = IF appends < LogCap THEN appends ELSE LogCap

\* ---------------------------------------------------------------- the load

\* C16: load_configs() returns for every configuration file, so the import never
\* ends the process: the empty mapping for a missing or an empty file, and the
\* empty mapping with a warning for every file that is not a mapping of guild
\* ids to records.
C16_LoadNeverFails ==
    /\ process # "crashed"
    /\ process = "importing" =>
            LET loaded == load_configs(config_file)
            IN  /\ ~loaded.raised
                /\ config_file.kind \in {"missing", "empty"} =>
                        loaded.configs = <<>> /\ ~loaded.warned
                /\ config_file.kind \in {"garbage", "array", "scalars"} =>
                        loaded.configs = <<>> /\ loaded.warned

\* C17: every record of the store has an allowed_users list, never null and
\* never missing, from the load on and after every mutator.
C17_AllowedUsersNeverNull ==
    process = "serving" =>
        \A g \in DOMAIN SERVER_CONFIGS :
            SERVER_CONFIGS[g].allowed_users \notin {NullList, AbsentKey}

\* ------------------------------------------------------- the command errors

\* C18: every command that ended with an error sent a chat message to its
\* channel, except an unrecognized command, which sent none.
C18_EveryFailureAnswered ==
    \A k \in TaskIds :
        (tasks[k].pc = "cmd_done" /\ tasks[k].error # "none")
            => (tasks[k].reply = "none" <=> tasks[k].error = "CommandNotFound")

\* ---------------------------------------------------------------- the start

\* C19: a run started without a token or with the placeholder token ends at
\* once: it logs one error line, creates no engine instance and leaves
\* bot_instance and bot_loop as they were; and a bridge-backed endpoint asked
\* while no ready engine is installed answers that the bot is offline.
C19_RefusedFailsFast ==
    [][/\ \A r \in Runs :
            (/\ runs[r].st = "spawned"
             /\ runs[r].token \in {NoToken, PLACEHOLDER}
             /\ runs'[r] # runs[r])
                => /\ runs'[r].st = "refused"
                   /\ global_logs' = log_to_global(global_logs,
                                                   "ERROR: DISCORD_TOKEN not configured")
                   /\ UNCHANGED <<bot_instance, bot_loop>>
       /\ \A r \in Runs : runs[r].st = "refused" => runs'[r] = runs[r]
       /\ \A t \in RequestThreads :
            (/\ thr[t].pc = "idle" /\ thr'[t].pc # "idle"
             /\ ~(bot_instance # None /\ runs[bot_instance].st = "ready"))
                => /\ thr'[t].pc = "responded"
                   /\ thr'[t].resp = Resp("400 Bot is offline")
                   /\ UNCHANGED <<tasks, ntasks>>]_vars

\* The process was started with the placeholder token: its run was refused, the
\* error line is the log, no engine is installed and a bridged request was
\* answered "Bot is offline".
C19_Witness ==
    /\ runs[1].st = "refused" /\ runs[1].token = PLACEHOLDER
    /\ nruns = 1
    /\ global_logs = <<"ERROR: DISCORD_TOKEN not configured">>
    /\ bot_instance = None /\ bot_loop = None
    /\ \E t \in RequestThreads : thr[t].resp = Resp("400 Bot is offline")

\* ------------------------------------------------------ the credential file

\* The step is a call of update_dotenv_token that wrote the file.
token_written ==
    /\ Len(global_logs') > Len(global_logs)
    /\ global_logs'[Len(global_logs')] = "Successfully updated DISCORD_TOKEN"

has_token_line(lines) == \E i \in 1..Len(lines) : lines[i].key = "DISCORD_TOKEN"

same_text(a, b) == a.key = b.key /\ a.val = b.val

\* Every DISCORD_TOKEN= line of `old` is the line of `token` in `new`, and every
\* other line is where and what it was.
rewritten_in_place(old, new, token) ==
    /\ Len(new) = Len(old)
    /\ \A i \in 1..Len(old) :
            new[i] = IF old[i].key = "DISCORD_TOKEN" THEN TokenLine(token) ELSE old[i]

\* Writing `token` to the file once more leaves it as it is.
update_repeats(file, token) ==
    updated_lines(file, token) = file.lines

\* The statement of C20 as it was made: a file with a DISCORD_TOKEN= line is
\* rewritten in place; otherwise the lines the file had (none, if there was no
\* file) are followed by the line of the new token and by nothing else.
C20_RewritesOnlyTokenLine ==
    [][token_written =>
        \E token \in {"T1", "T2"} :
            LET old == IF env_file.exists THEN env_file.lines ELSE <<>>
                new == env_file'.lines
            IN  /\ IF has_token_line(old) THEN rewritten_in_place(old, new, token)
                   ELSE /\ Len(new) = Len(old) + 1
                        /\ \A i \in 1..Len(old) : same_text(new[i], old[i])
                        /\ new[Len(new)] = TokenLine(token)
                /\ update_repeats(env_file', token)]_vars

\* C20: update_dotenv_token replaces every DISCORD_TOKEN= line in place by the
\* line of the new token and keeps every other line and the order; when the file
\* has no such line it appends a newline and the line of the new token, which
\* leaves an empty line before it unless the last line had no newline of its
\* own; a missing file is created as a generated comment line and the line of
\* the new token.  Writing the same token twice gives the file of writing it once.
C20_RewritesOrAppendsAfterNewline ==
    [][token_written =>
        \E token \in {"T1", "T2"} :
            LET old == env_file.lines
                new == env_file'.lines
                ended == old = <<>> \/ old[Len(old)].nl
            IN  /\ env_file'.exists
                /\ IF ~env_file.exists
                   THEN /\ Len(new) = 2
                        /\ new[1].key = "#"
                        /\ new[2] = TokenLine(token)
                   ELSE IF has_token_line(old) THEN rewritten_in_place(old, new, token)
                   ELSE /\ Len(new) = Len(old) + (IF ended THEN 2 ELSE 1)
                        /\ \A i \in 1..Len(old) : same_text(new[i], old[i]) /\ new[i].nl
                        /\ ended => new[Len(old) + 1] = BlankLine
                        /\ new[Len(new)] = TokenLine(token)
                /\ update_repeats(env_file', token)]_vars

\* A file of one other variable was given the token twice: the variable's line,
\* an empty line and the token's line, after the second write as after the first.
C20_Witness ==
    /\ global_logs = <<"Successfully updated DISCORD_TOKEN", "Successfully updated DISCORD_TOKEN">>
    /\ env_file.exists
    /\ Len(env_file.lines) = 3
    /\ env_file.lines[1].key = "PORT"
    /\ env_file.lines[2] = BlankLine
    /\ env_file.lines[3] = TokenLine("T2")

\* ---------------------------------------------------------------- the voice

\* Every engine has at most one voice session in each guild.
one_session_per_guild ==
    \A r \in Runs, g \in Guilds : Len(voice[r][g]) <= 1

\* The step in which force-join coroutine k leaves its last check, and the step
\* in which joinvc command k is invoked.
force_join_decides(k) ==
    tasks[k].kind = "join" /\ tasks[k].pc = "fetch_channel" /\ tasks'[k].pc # "fetch_channel"

joinvc_invoked(k) ==
    tasks[k].kind = "none" /\ tasks'[k].kind = "joinvc"

\* C21: a join whose target is not a voice channel ends as a failure and changes
\* no voice session; a join that passes its checks moves the session the engine
\* has in the guild, and only when there is none enters connect, which creates
\* the one session; a move that ends well leaves that session in the target
\* channel; every force_join request that waited is answered with a success or
\* a failure; and no engine ever has two voice sessions in a guild.
C21_JoinMovesOrConnects ==
    /\ []one_session_per_guild
    /\ [][/\ \A k \in TaskIds :
                /\ (force_join_decides(k) /\ ~IsVoice(tasks[k].chan))
                        => /\ tasks'[k].pc \notin {"move", "connect"}
                           /\ ~tasks'[k].ok
                           /\ voice' = voice
                /\ (force_join_decides(k) /\ tasks'[k].pc \in {"move", "connect"})
                        => /\ IsVoice(tasks[k].chan)
                           /\ tasks'[k].pc = "move" <=> voice[tasks[k].ginst][tasks[k].guild] # <<>>
                           /\ tasks'[k].pc = "move" => voice' = voice
                           /\ tasks'[k].pc = "connect" =>
                                voice'[tasks[k].cinst][tasks[k].guild] = <<tasks[k].chan>>
                /\ (/\ joinvc_invoked(k)
                    /\ tasks'[k].error = "none"
                    /\ tasks'[k].guild \in DOMAIN SERVER_CONFIGS
                    /\ SERVER_CONFIGS[tasks'[k].guild].channel_id # None
                    /\ ~IsVoice(SERVER_CONFIGS[tasks'[k].guild].channel_id))
                        => /\ tasks'[k].pc = "cmd_done"
                           /\ tasks'[k].reply = "The configured channel is invalid or not a voice channel"
                           /\ voice' = voice
                /\ (joinvc_invoked(k) /\ tasks'[k].pc \in {"move", "connect"})
                        => /\ IsVoice(tasks'[k].chan)
                           /\ tasks'[k].pc = "move" <=> voice[tasks'[k].loop][tasks'[k].guild] # <<>>
                           /\ tasks'[k].pc = "move" => voice' = voice
                           /\ tasks'[k].pc = "connect" =>
                                voice'[tasks'[k].loop][ChanGuild(tasks'[k].chan)] = <<tasks'[k].chan>>
                /\ (/\ tasks[k].kind \in {"join", "joinvc"} /\ tasks[k].pc = "move"
                    /\ tasks'[k].pc # "move"
                    /\ (tasks'[k].ok \/ tasks'[k].reply = "Moving to the channel")
                    /\ voice[tasks[k].loop][tasks[k].guild] # <<>>)
                        => voice'[tasks[k].loop][tasks[k].guild] = <<tasks[k].chan>>
       /\ \A t \in Threads :
                (thr[t].kind = "join" /\ thr[t].pc = "wait" /\ thr'[t].pc # "wait")
                    => /\ thr'[t].pc = "responded"
                       /\ thr'[t].resp.code \in {"200 success", "500 failure",
                                                 "500 Critical error", "500 timed out"}]_vars

\* Two force_join requests were served by two coroutines that both ended well,
\* and the engine has one voice session in the guild, in the voice channel.
C21_Witness ==
    /\ \A t \in Threads : thr[t].pc = "responded" /\ thr[t].resp.code = "200 success"
    /\ \E t, u \in Threads : thr[t].resp.from # thr[u].resp.from
    /\ voice[1][1] = <<2>>
    /\ global_logs = <<"Logged in", "Bot is operational", "Owner forced join", "Owner forced join">>

\* C22: whenever the engine in bot_instance reports ready, bot_loop is set and is
\* the event loop of that same engine.
C22_ReadyEngineOwnsLoop ==
    engine_ready => (bot_loop # None /\ bot_loop = bot_instance)

====
